---- MODULE Spec2Model ----
(***************************************************************************)
(* Model of the adaptive interview session of app.py.  The Streamlit       *)
(* script is executed from top to bottom once per event (a chat            *)
(* submission or a re-render); st.session_state is the state that          *)
(* survives between executions.  One action below is one execution of the  *)
(* script, including the execution that st.rerun() starts.                 *)
(***************************************************************************)
EXTENDS Integers, Sequences, FiniteSets

\* ---------------------------------------------------------------- bounds
\* largest question bank that load_questions() returns
MaxBank == 4
\* number of chat submissions that the script consumes without progress
MaxChatter == 1

\* ------------------------------------------------------ program constants
INTERVIEW_LENGTH == 3
\* highest score of the rubric; 0 is the value evaluate_answer substitutes
MaxScore == 5

\* ------------------------------------------------------------ chat input
UpperCase == <<"A", "R", "S", "T">>
LowerCase == <<"a", "r", "s", "t">>

\* str.lower(), character by character
LowerChar(c) ==
  IF \E i \in 1..Len(UpperCase) : UpperCase[i] = c
  THEN LowerCase[CHOOSE i \in 1..Len(UpperCase) : UpperCase[i] = c]
  ELSE c

Lower(s) == [i \in 1..Len(s) |-> LowerChar(s[i])]

\* the substring test of  'start' in prompt.lower()
Contains(sub, s) ==
  \E k \in 0..(Len(s) - Len(sub)) :
    \A i \in 1..Len(sub) : s[k + i] = sub[i]

StartToken == <<"s", "t", "a", "r", "t">>

HasStart(prompt) == Contains(StartToken, Lower(prompt))

\* texts the user may type into st.chat_input
Prompts == { <<"S", "t", "A", "R", "T", "!">>, <<"s", "t", "a", "r", "s">> }

\* texts the user types as the answer to a question
Answers == { <<"s", "t", "a", "r", "s">> }

\* --------------------------------------------------------- question bank
\* question i of the bank carries a 'hint' entry iff i is odd
HasHint(q) == q % 2 = 1

\* current_q_data.get('hint', "Let's think about that from another angle.")
\* the generic hint is written 0
HintOf(q) == IF HasHint(q) THEN q ELSE 0

\* load_questions(): the bank is the list of questions 1..n
FullQuestionList(n) == [i \in 1..n |-> i]

\* random.sample(population, k): any k distinct elements in any order
RandomSample(population, k) ==
  { s \in [1..k -> 1..Len(population)] :
      \A i, j \in 1..k : i # j => s[i] # s[j] }

\* the questions of a session, lines 119-122
SampledQuestions(n) ==
  IF n > INTERVIEW_LENGTH
  THEN { [i \in 1..INTERVIEW_LENGTH |-> FullQuestionList(n)[s[i]]] :
           s \in RandomSample(FullQuestionList(n), INTERVIEW_LENGTH) }
  ELSE { FullQuestionList(n) }

\* ---------------------------------------------------------------- scores
\* Evaluations with a passing score 3 as the substitute of line 86
EvaluationsNeutralOnError ==
  { [score |-> s, justification |-> "model"] : s \in 1..MaxScore }
    \cup { [score |-> 3, justification |-> "error"] }

\* evaluate_answer, lines 76-86: the parsed reply of the model with a rubric
\* score, or the substitute with score 0 when the call or the parsing raises
Evaluations ==
  { [score |-> s, justification |-> "model"] : s \in 1..MaxScore }
    \cup { [score |-> 0, justification |-> "error"] }

RECURSIVE SumScores(_)
SumScores(rs) ==
  IF rs = <<>> THEN 0 ELSE rs[1].evaluation.score + SumScores(Tail(rs))

RECURSIVE Gcd(_, _)
Gcd(a, b) == IF b = 0 THEN a ELSE Gcd(b, a % b)

\* Quotient with floor division (total_score // len) in place of /
QuotientFloor(n, d) == [num |-> n \div d, den |-> 1]

\* a quotient of two integers, in lowest terms
Quotient(n, d) ==
  IF n = 0 THEN [num |-> 0, den |-> 1]
  ELSE [num |-> n \div Gcd(n, d), den |-> d \div Gcd(n, d)]

\* average_score of lines 142-145
AverageScore(rs) ==
  IF rs # <<>> THEN Quotient(SumScores(rs), Len(rs))
  ELSE [num |-> 0, den |-> 1]

\* SeventyFivePercentMark with math.floor in place of math.ceil
SeventyFivePercentMarkFloor(total) == (3 * total) \div 4

\* math.ceil(total_questions * 0.75)
SeventyFivePercentMark(total) == (3 * total + 3) \div 4

\* average_score > 0 and average_score < 3.0
BelowAverage(avg) == avg.num > 0 /\ avg.num < 3 * avg.den

\* -------------------------------------------------------------- messages
UserMsg(prompt) ==
  [role |-> "user", kind |-> "prompt", text |-> prompt, q |-> 0]

AssistantMsg(kind, q) ==
  [role |-> "assistant", kind |-> kind, text |-> <<>>, q |-> q]

\* ----------------------------------------------------------------- state
VARIABLES
  stage,                \* st.session_state.stage
  q_index,              \* st.session_state.q_index
  results,              \* st.session_state.results
  retry_attempt,        \* st.session_state.retry_attempt
  interview_questions,  \* st.session_state.interview_questions
  messages,             \* st.session_state.messages
  report,               \* st.session_state.report, NoReport while absent
  average_score,        \* average_score of the latest execution
  evaluation,           \* evaluation of the latest execution, NoEval if none
  report_calls          \* number of calls of generate_final_report so far

vars == <<stage, q_index, results, retry_attempt, interview_questions,
          messages, report, average_score, evaluation, report_calls>>

NoReport == [kind |-> "absent", transcript |-> <<>>]
NoEval == [score |-> -1, justification |-> "none"]

total_questions == Len(interview_questions)

\* lines 110-135
Init ==
  /\ stage = "welcome"
  /\ q_index = 0
  /\ results = <<>>
  /\ retry_attempt = FALSE
  /\ \E n \in 0..MaxBank : interview_questions \in SampledQuestions(n)
  /\ messages = << AssistantMsg("welcome", Len(interview_questions)) >>
  /\ report = NoReport
  /\ average_score = AverageScore(<<>>)
  /\ evaluation = NoEval
  /\ report_calls = 0

\* ---------------------------------------------------------------- report
\* the transcript that generate_final_report formats, lines 90-95
Transcript(rs) ==
  [i \in 1..Len(rs) |->
     [number |-> i, question |-> rs[i].question, answer |-> rs[i].answer,
      score |-> rs[i].evaluation.score,
      justification |-> rs[i].evaluation.justification]]

\* generate_final_report, lines 88-104: the text of the model, or the fixed
\* message when the call raises
FinalReports(rs) ==
  { [kind |-> "text", transcript |-> Transcript(rs)],
    [kind |-> "could_not_generate", transcript |-> <<>>] }

\* FinishedView without the test  'report' not in st.session_state
FinishedViewRegenerates(rs) ==
  /\ average_score' = AverageScore(rs)
  /\ report' \in FinalReports(rs)
  /\ report_calls' = report_calls + 1

\* FinishedView that does not keep the message of a failed generation: the
\* next execution calls generate_final_report again
FinishedViewForgetsFailure(rs) ==
  /\ average_score' = AverageScore(rs)
  /\ IF report = NoReport \/ report.kind = "could_not_generate"
     THEN /\ report' \in FinalReports(rs)
          /\ report_calls' = report_calls + 1
     ELSE UNCHANGED <<report, report_calls>>

\* lines 160-167 of an execution that starts with results rs: the report is
\* generated unless st.session_state already holds one
FinishedView(rs) ==
  /\ average_score' = AverageScore(rs)
  /\ IF report = NoReport
     THEN /\ report' \in FinalReports(rs)
          /\ report_calls' = report_calls + 1
     ELSE UNCHANGED <<report, report_calls>>

\* --------------------------------------------------------------- actions
\* an execution without chat input before the interview is finished:
\* lines 138-157, then st.chat_input returns None
Render ==
  /\ stage # "interview_finished"
  /\ average_score' = AverageScore(results)
  /\ UNCHANGED <<stage, q_index, results, retry_attempt, interview_questions,
                 messages, report, evaluation, report_calls>>

\* FinishedRender without st.stop(): the execution goes on to st.chat_input
\* and line 170 logs what the user typed
FinishedRenderNoStop ==
  /\ stage = "interview_finished"
  /\ FinishedView(results)
  /\ \E prompt \in Prompts : messages' = Append(messages, UserMsg(prompt))
  /\ UNCHANGED <<stage, q_index, results, retry_attempt, interview_questions,
                 evaluation>>

\* an execution in stage interview_finished: st.stop() at line 167 ends it
\* before st.chat_input is reached
FinishedRender ==
  /\ stage = "interview_finished"
  /\ FinishedView(results)
  /\ UNCHANGED <<stage, q_index, results, retry_attempt, interview_questions,
                 messages, evaluation>>

\* lines 169-180 with 'start' in the input; with no question in the session
\* line 177 raises IndexError after line 176 has set the stage
WelcomeStart(prompt) ==
  /\ stage = "welcome"
  /\ HasStart(prompt)
  /\ stage' = "interviewing"
  /\ average_score' = AverageScore(results)
  /\ IF total_questions > 0
     THEN messages' = messages \o << UserMsg(prompt),
                         AssistantMsg("question", interview_questions[1]) >>
     ELSE messages' = Append(messages, UserMsg(prompt))
  /\ UNCHANGED <<q_index, results, retry_attempt, interview_questions,
                 report, evaluation, report_calls>>

\* WelcomeOther without the test of line 175: any input starts the interview
WelcomeOtherStarts(prompt) ==
  /\ stage = "welcome"
  /\ ~HasStart(prompt)
  /\ Len(messages) <= MaxChatter
  /\ stage' = "interviewing"
  /\ average_score' = AverageScore(results)
  /\ IF total_questions > 0
     THEN messages' = messages \o << UserMsg(prompt),
                         AssistantMsg("question", interview_questions[1]) >>
     ELSE messages' = Append(messages, UserMsg(prompt))
  /\ UNCHANGED <<q_index, results, retry_attempt, interview_questions,
                 report, evaluation, report_calls>>

\* lines 169-175 with any other input
WelcomeOther(prompt) ==
  /\ stage = "welcome"
  /\ ~HasStart(prompt)
  /\ Len(messages) <= MaxChatter
  /\ average_score' = AverageScore(results)
  /\ messages' = Append(messages, UserMsg(prompt))
  /\ UNCHANGED <<stage, q_index, results, retry_attempt, interview_questions,
                 report, evaluation, report_calls>>

\* line 183 with q_index out of range: IndexError ends the execution
AnswerIndexError(prompt) ==
  /\ stage = "interviewing"
  /\ q_index >= total_questions
  /\ Len(messages) <= MaxChatter + 2
  /\ average_score' = AverageScore(results)
  /\ messages' = Append(messages, UserMsg(prompt))
  /\ UNCHANGED <<stage, q_index, results, retry_attempt, interview_questions,
                 report, evaluation, report_calls>>

\* RetryCondition without  not st.session_state.retry_attempt
RetryConditionAnyAttempt(ev) == ev.score < 3

\* the condition of line 188
RetryCondition(ev) == ev.score < 3 /\ ~retry_attempt

\* RetryStep without line 189: retry_attempt is never set
RetryStepNoFlag(prompt, ev) ==
  /\ stage = "interviewing"
  /\ q_index < total_questions
  /\ RetryCondition(ev)
  /\ evaluation' = ev
  /\ average_score' = AverageScore(results)
  /\ messages' = messages \o << UserMsg(prompt),
         AssistantMsg("hint", HintOf(interview_questions[q_index + 1])) >>
  /\ UNCHANGED <<stage, q_index, results, retry_attempt, interview_questions,
                 report, report_calls>>

\* RetryStep that also records the attempt, as lines 197-199 do
RetryStepRecords(prompt, ev) ==
  /\ stage = "interviewing"
  /\ q_index < total_questions
  /\ RetryCondition(ev)
  /\ retry_attempt' = TRUE
  /\ evaluation' = ev
  /\ average_score' = AverageScore(results)
  /\ results' = Append(results, [question |-> interview_questions[q_index + 1],
                                 answer |-> prompt, evaluation |-> ev])
  /\ messages' = messages \o << UserMsg(prompt),
         AssistantMsg("hint", HintOf(interview_questions[q_index + 1])) >>
  /\ UNCHANGED <<stage, q_index, interview_questions, report, report_calls>>

\* lines 188-194
RetryStep(prompt, ev) ==
  /\ stage = "interviewing"
  /\ q_index < total_questions
  /\ RetryCondition(ev)
  /\ retry_attempt' = TRUE
  /\ evaluation' = ev
  /\ average_score' = AverageScore(results)
  /\ messages' = messages \o << UserMsg(prompt),
         AssistantMsg("hint", HintOf(interview_questions[q_index + 1])) >>
  /\ UNCHANGED <<stage, q_index, results, interview_questions, report,
                 report_calls>>

\* Accepted with results.insert(0, ...) in place of results.append
AcceptedPrepends(prompt, ev) ==
  << [question |-> interview_questions[q_index + 1],
      answer |-> prompt, evaluation |-> ev] >> \o results

\* Accepted with an assignment of a new list in place of results.append
AcceptedReplaces(prompt, ev) ==
  << [question |-> interview_questions[q_index + 1],
      answer |-> prompt, evaluation |-> ev] >>

\* lines 196-200: the result that is appended
Accepted(prompt, ev) ==
  Append(results, [question |-> interview_questions[q_index + 1],
                   answer |-> prompt, evaluation |-> ev])

\* EarlyStopCondition without the test of q_index against the 75% mark
EarlyStopConditionNoMark == BelowAverage(AverageScore(results))

\* the condition of line 203; average_score is the value computed at
\* lines 142-145 of the same execution
EarlyStopCondition ==
  /\ q_index + 1 >= SeventyFivePercentMark(total_questions)
  /\ BelowAverage(AverageScore(results))

\* lines 196-209, and the execution that st.rerun() starts
AcceptEarlyStop(prompt, ev) ==
  /\ stage = "interviewing"
  /\ q_index < total_questions
  /\ ~RetryCondition(ev)
  /\ EarlyStopCondition
  /\ retry_attempt' = FALSE
  /\ evaluation' = ev
  /\ results' = Accepted(prompt, ev)
  /\ q_index' = q_index + 1
  /\ stage' = "interview_finished"
  /\ messages' = messages \o << UserMsg(prompt), AssistantMsg("early_stop", 0) >>
  /\ FinishedView(Accepted(prompt, ev))
  /\ UNCHANGED interview_questions

\* AcceptNext without line 196: retry_attempt keeps its value
AcceptNextKeepsRetry(prompt, ev) ==
  /\ stage = "interviewing"
  /\ q_index < total_questions
  /\ ~RetryCondition(ev)
  /\ ~EarlyStopCondition
  /\ q_index + 1 < total_questions
  /\ evaluation' = ev
  /\ results' = Accepted(prompt, ev)
  /\ q_index' = q_index + 1
  /\ average_score' = AverageScore(results)
  /\ messages' = messages \o << UserMsg(prompt),
         AssistantMsg("next_question", interview_questions[q_index + 2]) >>
  /\ UNCHANGED <<stage, retry_attempt, interview_questions, report, report_calls>>

\* lines 196-203 and 211-216
AcceptNext(prompt, ev) ==
  /\ stage = "interviewing"
  /\ q_index < total_questions
  /\ ~RetryCondition(ev)
  /\ ~EarlyStopCondition
  /\ q_index + 1 < total_questions
  /\ retry_attempt' = FALSE
  /\ evaluation' = ev
  /\ results' = Accepted(prompt, ev)
  /\ q_index' = q_index + 1
  /\ average_score' = AverageScore(results)
  /\ messages' = messages \o << UserMsg(prompt),
         AssistantMsg("next_question", interview_questions[q_index + 2]) >>
  /\ UNCHANGED <<stage, interview_questions, report, report_calls>>

\* AcceptFinal without line 218 and the st.rerun() of line 223: the stage is
\* left at interviewing
AcceptFinalStaysInterviewing(prompt, ev) ==
  /\ stage = "interviewing"
  /\ q_index < total_questions
  /\ ~RetryCondition(ev)
  /\ ~EarlyStopCondition
  /\ ~(q_index + 1 < total_questions)
  /\ retry_attempt' = FALSE
  /\ evaluation' = ev
  /\ results' = Accepted(prompt, ev)
  /\ q_index' = q_index + 1
  /\ average_score' = AverageScore(results)
  /\ messages' = messages \o << UserMsg(prompt), AssistantMsg("final", 0) >>
  /\ UNCHANGED <<stage, interview_questions, report, report_calls>>

\* AcceptFinal that sets q_index back to 0 when the interview completes
AcceptFinalResetsIndex(prompt, ev) ==
  /\ stage = "interviewing"
  /\ q_index < total_questions
  /\ ~RetryCondition(ev)
  /\ ~EarlyStopCondition
  /\ ~(q_index + 1 < total_questions)
  /\ retry_attempt' = FALSE
  /\ evaluation' = ev
  /\ results' = Accepted(prompt, ev)
  /\ q_index' = 0
  /\ stage' = "interview_finished"
  /\ messages' = messages \o << UserMsg(prompt), AssistantMsg("final", 0) >>
  /\ FinishedView(Accepted(prompt, ev))
  /\ UNCHANGED interview_questions

\* lines 196-203 and 217-223, and the execution that st.rerun() starts
AcceptFinal(prompt, ev) ==
  /\ stage = "interviewing"
  /\ q_index < total_questions
  /\ ~RetryCondition(ev)
  /\ ~EarlyStopCondition
  /\ ~(q_index + 1 < total_questions)
  /\ retry_attempt' = FALSE
  /\ evaluation' = ev
  /\ results' = Accepted(prompt, ev)
  /\ q_index' = q_index + 1
  /\ stage' = "interview_finished"
  /\ messages' = messages \o << UserMsg(prompt), AssistantMsg("final", 0) >>
  /\ FinishedView(Accepted(prompt, ev))
  /\ UNCHANGED interview_questions

Next ==
  \/ Render
  \/ FinishedRender
  \/ \E prompt \in Prompts : WelcomeStart(prompt)
  \/ \E prompt \in Prompts : WelcomeOther(prompt)
  \/ \E prompt \in Answers : AnswerIndexError(prompt)
  \/ \E prompt \in Answers, ev \in Evaluations : RetryStep(prompt, ev)
  \/ \E prompt \in Answers, ev \in Evaluations : AcceptEarlyStop(prompt, ev)
  \/ \E prompt \in Answers, ev \in Evaluations : AcceptNext(prompt, ev)
  \/ \E prompt \in Answers, ev \in Evaluations : AcceptFinal(prompt, ev)

Spec == Init /\ [][Next]_vars

\* an execution that evaluates an answer to the current question
Submit ==
  \E prompt \in Answers, ev \in Evaluations :
    \/ RetryStep(prompt, ev)
    \/ AcceptEarlyStop(prompt, ev)
    \/ AcceptNext(prompt, ev)
    \/ AcceptFinal(prompt, ev)

\* the questions of the session are in the order of the bank, as they are
\* when line 122 takes the whole bank and for one sample in k! at line 120
InBankOrder ==
  \A i, j \in 1..total_questions :
    i < j => interview_questions[i] < interview_questions[j]

\* lines 110-135, for the sessions with the questions in the order of the bank
InitInBankOrder == Init /\ InBankOrder

\* the sessions in which the user goes on answering while a question is open;
\* which questions are asked has no part in how a session proceeds, and the
\* sessions are taken up to the order of their questions
FairSpec == InitInBankOrder /\ [][Next]_vars /\ WF_vars(Submit)

\* ------------------------------------------------- vocabulary of the claims
LastMsg == messages[Len(messages)]

ScoresOf(rs) == [i \in 1..Len(rs) |-> rs[i].evaluation.score]

HintsShown == Cardinality({ i \in 1..Len(messages) : messages[i].kind = "hint" })

\* the execution of this step evaluated an answer to a question
Answered == stage = "interviewing" /\ q_index < total_questions
              /\ messages' # messages

\* a is the arithmetic mean of the scores of the non-empty sequence rs
IsMeanOf(a, rs) ==
  /\ a.den > 0
  /\ a.num * Len(rs) = a.den * SumScores(rs)

\* C1: in every reachable state the number of recorded results equals q_index
C1_ResultsMatchIndex == Len(results) = q_index

C1_Witness ==
  /\ q_index = 2
  /\ Len(results) = 2
  /\ retry_attempt
  /\ HintsShown = 2

\* C2: a question gets at most one retry: a first answer below 3 leaves q_index
\* unchanged, and the answer that follows it is accepted whatever its score, so
\* the two submissions advance q_index by exactly 1
C2_AtMostOneRetry ==
  [][ /\ (Answered /\ ~retry_attempt /\ evaluation'.score < 3)
           => (q_index' = q_index /\ retry_attempt')
      /\ (Answered /\ retry_attempt)
           => (q_index' = q_index + 1 /\ ~retry_attempt') ]_vars

C2_Witness ==
  /\ q_index >= 1
  /\ results[q_index].evaluation.score < 3
  /\ ~retry_attempt
  /\ HintsShown >= 1

\* C3: after an acceptance that brings q_index to the 75% mark, the session
\* stops early iff the mean of all recorded scores, the accepted one included,
\* is above 0 and below 3.0
C3_EarlyStopIffMeanOfAll ==
  [][ (Answered /\ q_index' = q_index + 1
         /\ 4 * q_index' >= 3 * total_questions)
        => ((LastMsg'.kind = "early_stop")
              <=> (0 < SumScores(results')
                     /\ SumScores(results') < 3 * Len(results'))) ]_vars

\* C4: the early stop is never taken while q_index is below
\* ceil(0.75 * total_questions)
C4_EarlyStopNotBeforeMark ==
  LastMsg.kind = "early_stop" => 4 * q_index >= 3 * total_questions

C4_Witness ==
  /\ LastMsg.kind = "early_stop"
  /\ stage = "interview_finished"
  /\ total_questions = 3

\* C5 as stated: the average is 0 exactly when results is empty, and is the
\* mean of the recorded scores otherwise
C5_ZeroExactlyWhenEmpty ==
  [][ (results' = results)
        => /\ (average_score'.num = 0) <=> (results = <<>>)
           /\ results # <<>> => IsMeanOf(average_score', results) ]_vars

\* C5, amended: the average computed by an execution is 0 when results is
\* empty, is the mean of the recorded scores otherwise, and is 0 exactly when
\* no recorded score is above 0
C5_AverageIsMean ==
  [][ (results' = results)
        => /\ results = <<>> => average_score' = [num |-> 0, den |-> 1]
           /\ results # <<>> => IsMeanOf(average_score', results)
           /\ (average_score'.num = 0)
                <=> (\A i \in 1..Len(results) : results[i].evaluation.score = 0)
     ]_vars

C5_Witness ==
  /\ Len(results) = 2
  /\ results[1].evaluation.score = 0
  /\ results[2].evaluation.score = 5
  /\ average_score = [num |-> 5, den |-> 2]

\* C6: the scenario with three sampled questions and the scores 4, 2, 2, 1
C6_After0 ==
  /\ total_questions = 3 /\ stage = "interviewing" /\ q_index = 0
  /\ results = <<>> /\ ~retry_attempt /\ HintsShown = 0

C6_After1 ==
  /\ total_questions = 3 /\ stage = "interviewing" /\ q_index = 1
  /\ ScoresOf(results) = <<4>> /\ ~retry_attempt /\ HintsShown = 0

C6_After2 ==
  /\ total_questions = 3 /\ stage = "interviewing" /\ q_index = 1
  /\ ScoresOf(results) = <<4>> /\ retry_attempt /\ HintsShown = 1
  /\ LastMsg.kind = "hint"

C6_After3 ==
  /\ total_questions = 3 /\ stage = "interviewing" /\ q_index = 2
  /\ ScoresOf(results) = <<4, 2>> /\ ~retry_attempt /\ HintsShown = 1
  /\ LastMsg.kind = "next_question"

\* the state the claim gives after the 4th submission
C6_After4Accepted ==
  /\ total_questions = 3 /\ stage = "interview_finished" /\ q_index = 3
  /\ ScoresOf(results) = <<4, 2, 1>> /\ ~retry_attempt /\ HintsShown = 1
  /\ report_calls = 1 /\ report # NoReport

\* the state after the 4th submission: the first answer to the 3rd question
\* scores below 3 with no retry pending, so it is a retry step
C6_After4Retry ==
  /\ total_questions = 3 /\ stage = "interviewing" /\ q_index = 2
  /\ ScoresOf(results) = <<4, 2>> /\ retry_attempt /\ HintsShown = 2
  /\ LastMsg.kind = "hint"
  /\ report_calls = 0 /\ report = NoReport

C6_FirstThree ==
  /\ (C6_After0 /\ Answered /\ evaluation'.score = 4) => C6_After1'
  /\ (C6_After1 /\ Answered /\ evaluation'.score = 2) => C6_After2'
  /\ (C6_After2 /\ Answered /\ evaluation'.score = 2) => C6_After3'

\* C6 as stated: the 4th submission (3rd question, score 1) is accepted and
\* finishes the interview
C6_ScenarioAsStated ==
  [][ /\ C6_FirstThree
      /\ (C6_After3 /\ Answered /\ evaluation'.score = 1)
           => C6_After4Accepted' ]_vars

\* C6, amended: the 4th submission is answered with the retry hint, q_index
\* stays 2, the stage stays interviewing and no report is generated
C6_Scenario ==
  [][ /\ C6_FirstThree
      /\ (C6_After3 /\ Answered /\ evaluation'.score = 1)
           => C6_After4Retry' ]_vars

C6_Witness ==
  /\ C6_After4Retry
  /\ evaluation.score = 1
  /\ interview_questions[2] = 4

\* C7: once the stage is interview_finished no execution changes the stage,
\* q_index, results or retry_attempt, and nothing more is emitted
C7_FinishedIsTerminal ==
  [][ stage = "interview_finished"
        => /\ stage' = stage
           /\ q_index' = q_index
           /\ results' = results
           /\ retry_attempt' = retry_attempt
           /\ messages' = messages ]_vars

C7_Witness ==
  /\ stage = "interview_finished"
  /\ q_index = total_questions
  /\ LastMsg.kind = "final"
  /\ report.kind = "text"

\* C8: generate_final_report is called exactly once per session, by the first
\* execution in stage interview_finished and with the results as they stand;
\* later executions keep the stored report
C8_ReportOnce ==
  /\ [](/\ report_calls <= 1
        /\ stage # "interview_finished"
             => (report_calls = 0 /\ report = NoReport)
        /\ stage = "interview_finished"
             => /\ report_calls = 1
                /\ report \in FinalReports(results))
  /\ [][ stage = "interview_finished"
           => (report' = report /\ report_calls' = report_calls) ]_vars

C8_Witness ==
  /\ stage = "interview_finished"
  /\ report_calls = 1
  /\ report.kind = "text"
  /\ Len(report.transcript) = 3
  /\ HintsShown = 3

\* C9: an answer below 3 with no retry pending sets retry_attempt, emits the
\* hint and nothing else, and leaves q_index, results and the stage alone
C9_RetryFrame ==
  [][ (Answered /\ ~retry_attempt /\ evaluation'.score < 3)
        => /\ retry_attempt'
           /\ messages' = messages \o
                << messages'[Len(messages) + 1],
                   AssistantMsg("hint", HintOf(interview_questions[q_index + 1])) >>
           /\ messages'[Len(messages) + 1].role = "user"
           /\ q_index' = q_index
           /\ results' = results
           /\ stage' = "interviewing" ]_vars

C9_Witness ==
  /\ retry_attempt
  /\ LastMsg.kind = "hint"
  /\ LastMsg.q = 0
  /\ q_index = 1

\* C10: retry_attempt holds only in stage interviewing, exactly when the last
\* thing emitted is the hint for the question at q_index after an answer below
\* 3, and it is false whenever q_index has just advanced
C10_RetryPending ==
  /\ [](/\ retry_attempt => stage = "interviewing"
        /\ retry_attempt <=> (LastMsg.kind = "hint")
        /\ retry_attempt
             => /\ q_index < total_questions
                /\ evaluation.score < 3
                /\ LastMsg.q = HintOf(interview_questions[q_index + 1]))
  /\ [][ q_index' # q_index => ~retry_attempt' ]_vars

C10_Witness ==
  /\ retry_attempt
  /\ stage = "interviewing"
  /\ q_index = 2
  /\ evaluation.score = 0

\* C11: q_index stays between 0 and the number of sampled questions and never
\* decreases
C11_IndexInRangeMonotone ==
  /\ [](0 <= q_index /\ q_index <= total_questions)
  /\ [][ q_index' >= q_index ]_vars

C11_Witness ==
  /\ q_index = 3
  /\ total_questions = 3
  /\ stage = "interview_finished"
  /\ HintsShown = 0

\* the evaluation of this step is the substitute for a failed evaluation
EvaluationFailed == Answered /\ evaluation'.justification = "error"

C13_ReportFailureKeepsCompletion ==
  /\ [](report.kind = "could_not_generate"
          => /\ stage = "interview_finished"
             /\ report_calls = 1
             /\ Len(results) = q_index)
  /\ [][ report.kind = "could_not_generate"
           => /\ report' = report
              /\ report_calls' = report_calls
              /\ results' = results
              /\ stage' = "interview_finished" ]_vars

C13_Witness ==
  /\ report.kind = "could_not_generate"
  /\ stage = "interview_finished"
  /\ Len(results) = 3
  /\ report_calls = 1

\* the execution of this step consumed a chat input in stage welcome
WelcomeInput == stage = "welcome" /\ Len(messages') > Len(messages)

\* the text of the chat input that this step consumed
InputText == messages'[Len(messages) + 1].text

\* C14: in stage welcome an input that contains "start" in any case moves the
\* session to interviewing, emits the first sampled question, and leaves
\* q_index at 0, results empty and retry_attempt false
C14_StartBeginsInterview ==
  [][ (WelcomeInput /\ HasStart(InputText))
        => /\ stage' = "interviewing"
           /\ total_questions > 0
           /\ messages' = messages \o
                << UserMsg(InputText),
                   AssistantMsg("question", interview_questions[1]) >>
           /\ q_index' = 0
           /\ results' = <<>>
           /\ ~retry_attempt' ]_vars

\* C15 as stated: in stage welcome an input without "start" mutates nothing
\* of the session
C15_NoMutationAtAll ==
  [][ (WelcomeInput /\ ~HasStart(InputText))
        => UNCHANGED <<stage, q_index, results, retry_attempt,
                       interview_questions, messages, report>> ]_vars

\* C15, amended: in stage welcome an input without "start" leaves the stage,
\* q_index, results and retry_attempt alone and emits no question; the input
\* itself is appended to the messages and that is the only change
C15_OnlyInputLogged ==
  [][ (WelcomeInput /\ ~HasStart(InputText))
        => /\ UNCHANGED <<stage, q_index, results, retry_attempt,
                          interview_questions, report, report_calls>>
           /\ messages' = Append(messages, UserMsg(InputText)) ]_vars

C15_Witness ==
  /\ stage = "welcome"
  /\ Len(messages) = 2
  /\ messages[2].role = "user"
  /\ ~HasStart(messages[2].text)
  /\ q_index = 0
  /\ results = <<>>

\* C17: results are recorded in the order the questions are asked and are
\* only ever appended to
C17_ResultsInAskOrder ==
  /\ [](/\ Len(results) <= total_questions
        /\ \A i \in 1..Len(results) :
             results[i].question = interview_questions[i])
  /\ [][ /\ Len(results') >= Len(results)
         /\ \A i \in 1..Len(results) : results'[i] = results[i] ]_vars

C17_Witness ==
  /\ Len(results) = 3
  /\ interview_questions = <<3, 4, 1>>
  /\ results[1].question = 3
  /\ results[3].question = 1

\* C19: whenever the stage is interviewing the lookup of the current question
\* is in range, for every size of the bank
C19_LookupInRange ==
  stage = "interviewing" => q_index < total_questions

\* C20: sessions have at most 3 questions, for which the 75% mark is the
\* number of questions, so the interview is only ever finished with every
\* question answered and recorded
C20_FinishedOnlyWhenAllAnswered ==
  /\ total_questions <= 3
  /\ 4 * (total_questions - 1) < 3 * total_questions
  /\ stage = "interview_finished"
       => (q_index = total_questions /\ Len(results) = total_questions)

C20_Witness ==
  /\ stage = "interview_finished"
  /\ LastMsg.kind = "early_stop"
  /\ total_questions = 2
  /\ Len(results) = 2

\* the number of inputs submitted since the first question was emitted
AnswersGiven ==
  Cardinality({ i \in 1..Len(messages) :
                  /\ messages[i].role = "user"
                  /\ \E j \in 1..(i - 1) : messages[j].kind = "question" })

====
